---------------------------- MODULE Spec2Model ----------------------------
(***************************************************************************)
(* libpt DSV parser (DSV.h): the character-at-a-time state machine of      *)
(* DSVParser, its FeedCharacter / Parse / FinishParsing / Reset            *)
(* operations, the notifications it delivers to its hooks, and the         *)
(* StringReader it pulls characters from.                                  *)
(***************************************************************************)
EXTENDS Naturals, Sequences, FiniteSets

\* ------------------------------------------------------------------ bounds
\* Longest history of consumed characters and Finish/Reset marks.
MaxHist == 5
\* Longest backing string handed to one Parse call.
MaxSupply == 2
\* Latest invocation of the hooks that may throw.
MaxFailAt == 3

\* -------------------------------------------------------------- characters
NL == "\n"
UnixSeparator == ":"
UnixEscape == "\\"
\* Characters a caller may feed: one that is ordinary under every
\* configuration, the two UNIX marker characters and the newline.
Chars == {"a", UnixSeparator, UnixEscape, NL}
\* Characters a hooks type may declare as its Separator or Escape.
MarkerChars == {UnixSeparator, UnixEscape, NL}

\* ----------------------------------------------------------- notifications
NoChar == ""
OnRecordStart == [ev |-> "OnRecordStart", ch |-> NoChar]
OnFieldCharacter(c) == [ev |-> "OnFieldCharacter", ch |-> c]
OnFieldEnd == [ev |-> "OnFieldEnd", ch |-> NoChar]
OnRecordEnd == [ev |-> "OnRecordEnd", ch |-> NoChar]
OnReset == [ev |-> "OnReset", ch |-> NoChar]

\* Marks recorded in the history next to the consumed characters.
FIN == "FinishParsing"
RST == "Reset"

\* ------------------------------------------------------------ exceptions
NoError == "none"
\* What a hooks method may throw: the exception Parse catches, and another.
ErrorTypes == {"EOFException", "IOException"}
\* Hooks that never throw, and hooks whose at-th invocation throws.
NeverFails == [at |-> 0, type |-> NoError]

VARIABLES
  Separator,   \* GetSeparator(): the field separator of the hooks
  Escape,      \* GetEscape(): the escape character of the hooks
  Escaping,    \* true if the parser just parsed an unescaped escape character
  InRecord,    \* true if the parser is in the middle of a record
  Hooks,       \* the notifications delivered to the callbacks so far
  Field,       \* DSVStringFieldBuffer::Field, the buffer of the hooks
  Collected,   \* the field texts the hooks read from Field at each OnFieldEnd
  fail,        \* which invocation of the hooks throws, and what
  raised,      \* the exception the last call let through to its caller
  sinkThrew,   \* the exception the hooks threw during the last call
  reader,      \* the caller's reader, as the last Parse call left it
  hist,        \* characters consumed and Finish/Reset calls made, in order
  op,          \* the last operation called and its character argument
  that         \* the parser object on the other side of a move

vars == <<Separator, Escape, Escaping, InRecord, Hooks, Field, Collected,
          fail, raised, sinkThrew, reader, hist, op, that>>

\* The parser object, with its hooks, as a call finds it.
Self ==
  [Separator |-> Separator, Escape |-> Escape,
   Escaping |-> Escaping, InRecord |-> InRecord, Hooks |-> Hooks,
   Field |-> Field, Collected |-> Collected, fail |-> fail,
   thrown |-> NoError, sinkThrew |-> NoError]

\* DSVParser(): Escaping(false), InRecord(false), nothing delivered yet.
NewParser(sep, esc) ==
  [Separator |-> sep, Escape |-> esc,
   Escaping |-> FALSE, InRecord |-> FALSE, Hooks |-> <<>>,
   Field |-> <<>>, Collected |-> <<>>, fail |-> NeverFails,
   thrown |-> NoError, sinkThrew |-> NoError]

\* An exception is on its way out of the call.
Thrown(self) == self.thrown # NoError

\* ------------------------------------------------------------- the hooks
\* ClearField(): Field.clear().
ClearField(field) == <<>>

\* DSVStringFieldBuffer::OnFieldCharacter: Field.push_back(c).
BufferOnFieldCharacter(field, c) == Append(field, c)

\* Variant of BufferOnReset that keeps the buffer.
BufferOnReset_KeepsField(field) == field

\* DSVStringFieldBuffer::OnReset: ClearField().
BufferOnReset(field) == ClearField(field)

\* What the invoked hooks method does when it does not throw: the buffer
\* takes the field character, OnReset clears it, and OnFieldEnd reads the
\* field's text and calls ClearField as the class comment asks of it.
HooksBody(self, n) ==
  IF n.ev = "OnFieldCharacter"
  THEN [self EXCEPT !.Field = BufferOnFieldCharacter(@, n.ch)]
  ELSE IF n.ev = "OnReset"
  THEN [self EXCEPT !.Field = BufferOnReset(@)]
  ELSE IF n.ev = "OnFieldEnd"
  THEN [self EXCEPT !.Collected = Append(@, self.Field),
                    !.Field = ClearField(@)]
  ELSE self

\* The parser invokes a hooks method: the invocation is recorded, and the
\* method either throws or does its work.
Deliver(self, n) ==
  LET told == [self EXCEPT !.Hooks = Append(@, n)]
  IN  IF self.fail.at = Len(told.Hooks)
      THEN [told EXCEPT !.thrown = self.fail.type,
                        !.sinkThrew = self.fail.type]
      ELSE HooksBody(told, n)

\* ------------------------------------------------------------ the parser
\* Variant of StartRecord that also opens a record on a newline.
StartRecord_OnNewlineToo(self, c) ==
  IF ~self.InRecord
  THEN [self EXCEPT !.InRecord = TRUE, !.Hooks = Append(@, OnRecordStart)]
  ELSE self

\* Variant of StartRecord that announces the record without setting
\* InRecord.
StartRecord_ForgetsInRecord(self, c) ==
  IF ~self.InRecord /\ c # NL
  THEN [self EXCEPT !.Hooks = Append(@, OnRecordStart)]
  ELSE self

\* Variant of StartRecord in which the escape character opens no record.
StartRecord_NotOnEscape(self, c) ==
  IF ~self.InRecord /\ c # NL /\ c # self.Escape
  THEN [self EXCEPT !.InRecord = TRUE, !.Hooks = Append(@, OnRecordStart)]
  ELSE self

\* if (!InRecord && c != '\n') { InRecord = true; OnRecordStart(); }
StartRecord(self, c) ==
  IF ~self.InRecord /\ c # NL
  THEN Deliver([self EXCEPT !.InRecord = TRUE], OnRecordStart)
  ELSE self

\* Variant of Dispatch whose newline branch closes the record without
\* closing its last field.
Dispatch_NewlineSkipsFieldEnd(self, c) ==
  IF c = self.Separator
  THEN [self EXCEPT !.Hooks = Append(@, OnFieldEnd)]
  ELSE IF c = self.Escape
  THEN [self EXCEPT !.Escaping = TRUE]
  ELSE IF c = NL
  THEN IF self.InRecord
       THEN [self EXCEPT !.Hooks = Append(@, OnRecordEnd),
                         !.InRecord = FALSE]
       ELSE self
  ELSE [self EXCEPT !.Hooks = Append(@, OnFieldCharacter(c))]

\* Variant of Dispatch whose separator branch closes no empty field.
Dispatch_SkipsEmptyField(self, c) ==
  IF c = self.Separator
  THEN IF /\ self.Hooks # <<>>
          /\ self.Hooks[Len(self.Hooks)].ev = "OnFieldCharacter"
       THEN [self EXCEPT !.Hooks = Append(@, OnFieldEnd)]
       ELSE self
  ELSE IF c = self.Escape
  THEN [self EXCEPT !.Escaping = TRUE]
  ELSE IF c = NL
  THEN IF self.InRecord
       THEN [self EXCEPT !.Hooks = Append(Append(@, OnFieldEnd), OnRecordEnd),
                         !.InRecord = FALSE]
       ELSE self
  ELSE [self EXCEPT !.Hooks = Append(@, OnFieldCharacter(c))]

\* Variant of Dispatch whose escape branch also delivers the escape
\* character as field content.
Dispatch_DeliversEscape(self, c) ==
  IF c = self.Separator
  THEN [self EXCEPT !.Hooks = Append(@, OnFieldEnd)]
  ELSE IF c = self.Escape
  THEN [self EXCEPT !.Escaping = TRUE,
                    !.Hooks = Append(@, OnFieldCharacter(c))]
  ELSE IF c = NL
  THEN IF self.InRecord
       THEN [self EXCEPT !.Hooks = Append(Append(@, OnFieldEnd), OnRecordEnd),
                         !.InRecord = FALSE]
       ELSE self
  ELSE [self EXCEPT !.Hooks = Append(@, OnFieldCharacter(c))]

\* Variant of Dispatch that tests the escape character before the
\* separator.
Dispatch_EscapeBeatsSeparator(self, c) ==
  IF c = self.Escape
  THEN [self EXCEPT !.Escaping = TRUE]
  ELSE IF c = self.Separator
  THEN [self EXCEPT !.Hooks = Append(@, OnFieldEnd)]
  ELSE IF c = NL
  THEN IF self.InRecord
       THEN [self EXCEPT !.Hooks = Append(Append(@, OnFieldEnd), OnRecordEnd),
                         !.InRecord = FALSE]
       ELSE self
  ELSE [self EXCEPT !.Hooks = Append(@, OnFieldCharacter(c))]

\* Variant of Dispatch whose newline branch does not test InRecord.
Dispatch_NewlineAlwaysEnds(self, c) ==
  IF c = self.Separator
  THEN [self EXCEPT !.Hooks = Append(@, OnFieldEnd)]
  ELSE IF c = self.Escape
  THEN [self EXCEPT !.Escaping = TRUE]
  ELSE IF c = NL
  THEN [self EXCEPT !.Hooks = Append(Append(@, OnFieldEnd), OnRecordEnd),
                    !.InRecord = FALSE]
  ELSE [self EXCEPT !.Hooks = Append(@, OnFieldCharacter(c))]

\* The branch on an unescaped character: separator, escape, newline, other.
Dispatch(self, c) ==
  IF c = self.Separator
  THEN Deliver(self, OnFieldEnd)
  ELSE IF c = self.Escape
  THEN [self EXCEPT !.Escaping = TRUE]
  ELSE IF c = NL
  THEN IF self.InRecord
       THEN LET ended == Deliver(self, OnFieldEnd)
            IN  IF Thrown(ended) THEN ended
                ELSE Deliver([ended EXCEPT !.InRecord = FALSE], OnRecordEnd)
       ELSE self
  ELSE Deliver(self, OnFieldCharacter(c))

\* Variant of HandleParsedCharacter that leaves Escaping set after the
\* escaped character.
HandleParsedCharacter_EscapeSticks(self, c) ==
  IF self.Escaping
  THEN [self EXCEPT !.Hooks = Append(@, OnFieldCharacter(c))]
  ELSE Dispatch(StartRecord(self, c), c)

\* Variant of HandleParsedCharacter in which an escape does not protect
\* the separator.
HandleParsedCharacter_SeparatorBeatsEscape(self, c) ==
  IF self.Escaping /\ c # self.Separator
  THEN [self EXCEPT !.Hooks = Append(@, OnFieldCharacter(c)),
                    !.Escaping = FALSE]
  ELSE Dispatch(StartRecord([self EXCEPT !.Escaping = FALSE], c), c)

\* Variant of HandleParsedCharacter in which the character that opens a
\* record is used up by opening it.
HandleParsedCharacter_StartConsumes(self, c) ==
  IF self.Escaping
  THEN [self EXCEPT !.Hooks = Append(@, OnFieldCharacter(c)),
                    !.Escaping = FALSE]
  ELSE IF ~self.InRecord /\ c # NL
  THEN StartRecord(self, c)
  ELSE Dispatch(self, c)

HandleParsedCharacter(self, c) ==
  IF self.Escaping
  THEN LET told == Deliver(self, OnFieldCharacter(c))
       IN  IF Thrown(told) THEN told
           ELSE [told EXCEPT !.Escaping = FALSE]
  ELSE LET started == StartRecord(self, c)
       IN  IF Thrown(started) THEN started
           ELSE Dispatch(started, c)

\* Variant of FinishParsing that never delivers OnRecordEnd.
FinishParsing_NoRecordEnd(self) ==
  IF self.InRecord
  THEN [self EXCEPT !.Hooks = Append(@, OnFieldEnd),
                    !.Escaping = FALSE,
                    !.InRecord = FALSE]
  ELSE self

\* Variant of FinishParsing that clears InRecord only.
FinishParsing_KeepsEscaping(self) ==
  IF self.InRecord
  THEN [self EXCEPT !.Hooks = Append(Append(@, OnFieldEnd), OnRecordEnd),
                    !.InRecord = FALSE]
  ELSE self

\* Variant of FinishParsing that clears Escaping only.
FinishParsing_KeepsInRecord(self) ==
  IF self.InRecord
  THEN [self EXCEPT !.Hooks = Append(Append(@, OnFieldEnd), OnRecordEnd),
                    !.Escaping = FALSE]
  ELSE self

\* Variant of FinishParsing that ends the record before its last field.
FinishParsing_RecordEndFirst(self) ==
  IF self.InRecord
  THEN [self EXCEPT !.Hooks = Append(Append(@, OnRecordEnd), OnFieldEnd),
                    !.Escaping = FALSE,
                    !.InRecord = FALSE]
  ELSE self

FinishParsing(self) ==
  IF self.InRecord
  THEN LET ended == Deliver(self, OnFieldEnd)
       IN  IF Thrown(ended) THEN ended
           ELSE Deliver([ended EXCEPT !.Escaping = FALSE,
                                      !.InRecord = FALSE], OnRecordEnd)
  ELSE self

\* Variant of ResetParser that closes the open record before resetting.
ResetParser_ClosesRecord(self) ==
  [FinishParsing(self) EXCEPT !.Escaping = FALSE,
                              !.InRecord = FALSE,
                              !.Hooks = Append(@, OnReset)]

\* Variant of ResetParser that clears InRecord only.
ResetParser_KeepsEscaping(self) ==
  [self EXCEPT !.InRecord = FALSE,
               !.Hooks = Append(@, OnReset)]

\* Reset(): Escaping = InRecord = false; OnReset();
ResetParser(self) ==
  Deliver([self EXCEPT !.Escaping = FALSE, !.InRecord = FALSE], OnReset)

\* Variant of Destructor that only clears the flags.
Destructor_SkipsFinish(self) ==
  [self EXCEPT !.Escaping = FALSE, !.InRecord = FALSE]

\* ~DSVParser(): FinishParsing(); Escaping = InRecord = false;
Destructor(self) ==
  LET finished == FinishParsing(self)
  IN  IF Thrown(finished) THEN finished
      ELSE [finished EXCEPT !.Escaping = FALSE, !.InRecord = FALSE]

\* ------------------------------------------------------------- the moves
\* std::swap(Hooks, that.Hooks): the callbacks object goes with what it was
\* told and with its buffer.
SwapHooks(self, other) ==
  [self EXCEPT !.Hooks = other.Hooks, !.Field = other.Field,
               !.Collected = other.Collected, !.fail = other.fail]

\* part_001, DSVParser(DSVParser &&that) : DSVParser() {
\* std::swap(Hooks, that.Hooks); std::swap(Escaping, that.Escaping); }
MoveConstructor(old) ==
  LET this == NewParser(old.Separator, old.Escape)
  IN  [this |-> [SwapHooks(this, old) EXCEPT !.Escaping = old.Escaping],
       that |-> [SwapHooks(old, this) EXCEPT !.Escaping = this.Escaping]]

\* part_001, operator=(DSVParser &&that), called on a parser that was
\* default-constructed: swaps Hooks, Escaping and InRecord.
MoveAssignment(old) ==
  LET this == NewParser(old.Separator, old.Escape)
  IN  [this |-> [SwapHooks(this, old) EXCEPT !.Escaping = old.Escaping,
                                             !.InRecord = old.InRecord],
       that |-> [SwapHooks(old, this) EXCEPT !.Escaping = this.Escaping,
                                             !.InRecord = this.InRecord]]

\* ----------------------------------------------------------- the readers
\* The terminator of a C string; no character of Chars.
NUL == "NUL"

\* StringReader(backing_string): Current = begin(), End = end().
NewStringReader(s) ==
  [kind |-> "StringReader", BackingString |-> s,
   Current |-> 1, End |-> Len(s) + 1, feof |-> FALSE]

\* FileReader(file) on a FILE holding s, nothing read yet: BackingString is
\* the file's content, Current its position, feof its end-of-file indicator.
NewFileReader(s) ==
  [kind |-> "FileReader", BackingString |-> s,
   Current |-> 1, End |-> Len(s) + 1, feof |-> FALSE]

\* CStringReader(backing_string): Current = backing_string; the string
\* ends at its terminator, which End locates in the model only.
NewCStringReader(s) ==
  [kind |-> "CStringReader", BackingString |-> s,
   Current |-> 1, End |-> Len(s) + 1, feof |-> FALSE]

\* *Current of a CStringReader: a character of the string or, after its
\* last character, the terminator.
Deref(r) ==
  IF r.Current > Len(r.BackingString) THEN NUL
  ELSE r.BackingString[r.Current]

\* Variant of IsEOF that reports the end one character early.
IsEOF_BeforeLast(r) ==
  IF r.kind = "FileReader" THEN r.feof ELSE r.Current + 1 >= r.End

\* StringReader: Current == End.  FileReader: feof(File) != 0.
\* CStringReader: *Current == '\0'.
IsEOF(r) ==
  IF r.kind = "FileReader" THEN r.feof
  ELSE IF r.kind = "CStringReader" THEN Deref(r) = NUL
  ELSE r.Current = r.End

\* StringReader and CStringReader: throw EOFException at the end, else
\* *Current++.
\* FileReader: getc; at the end of the file it sets the end-of-file
\* indicator and returns -1, and ReadChar throws EOFException.
ReadChar(r) ==
  IF IF r.kind = "CStringReader" THEN Deref(r) = NUL ELSE r.Current = r.End
  THEN [c |-> NoChar, thrown |-> "EOFException",
        reader |-> IF r.kind = "FileReader" THEN [r EXCEPT !.feof = TRUE]
                   ELSE r]
  ELSE [c |-> r.BackingString[r.Current], thrown |-> NoError,
        reader |-> [r EXCEPT !.Current = @ + 1]]

\* while (!reader.IsEOF()) HandleParsedCharacter(reader.ReadChar());
\* an exception of the reader or of the hooks leaves the loop.
RECURSIVE ParseLoop(_, _)
ParseLoop(self, r) ==
  IF IsEOF(r)
  THEN [self |-> self, reader |-> r]
  ELSE LET rd == ReadChar(r)
       IN  IF rd.thrown # NoError
           THEN [self |-> [self EXCEPT !.thrown = rd.thrown],
                 reader |-> rd.reader]
           ELSE LET handled == HandleParsedCharacter(self, rd.c)
                IN  IF Thrown(handled)
                    THEN [self |-> handled, reader |-> rd.reader]
                    ELSE ParseLoop(handled, rd.reader)

\* Variant of ParseReader without the catch clause.
ParseReader_NoCatch(self, r) == ParseLoop(self, r)

\* Variant of ParseReader that drops a pending escape when the reader is
\* exhausted.
ParseReader_DropsPendingEscape(self, r) ==
  LET done == ParseLoop(self, r)
  IN  [done EXCEPT !.self.thrown = NoError, !.self.Escaping = FALSE]

\* Variant of ParseReader that finishes the open record when the reader is
\* exhausted.
ParseReader_Finishes(self, r) ==
  LET done == ParseLoop(self, r)
  IN  [done EXCEPT !.self = FinishParsing([done.self EXCEPT
                                             !.thrown = NoError])]

\* Parse(reader): try { the loop } catch (EOFException e) {}
ParseReader(self, r) ==
  LET done == ParseLoop(self, r)
  IN  IF done.self.thrown = "EOFException"
      THEN [done EXCEPT !.self.thrown = NoError]
      ELSE done

\* ParseOnly(reader): Parse(reader); FinishParsing();
ParseOnlyReader(self, r) ==
  LET parsed == ParseReader(self, r)
  IN  IF Thrown(parsed.self) THEN parsed
      ELSE [parsed EXCEPT !.self = FinishParsing(parsed.self)]

\* part_002, Parse(std::basic_istream &): for (stream.get(c);
\* !stream.fail(); stream.get(c)) { the body of HandleParsedCharacter }
RECURSIVE IstreamLoop(_, _)
IstreamLoop(self, s) ==
  IF s = <<>> THEN self
  ELSE LET handled == HandleParsedCharacter(self, Head(s))
       IN  IF Thrown(handled) THEN handled
           ELSE IstreamLoop(handled, Tail(s))

\* ------------------------------------------------------------- operations
Call(name, c) == [name |-> name, c |-> c]

\* No move has taken place.
NoThat == [live |-> FALSE, obj |-> NewParser(UnixSeparator, UnixEscape)]

Store(self) ==
  /\ Escaping' = self.Escaping
  /\ InRecord' = self.InRecord
  /\ Hooks' = self.Hooks
  /\ Field' = self.Field
  /\ Collected' = self.Collected
  /\ raised' = self.thrown
  /\ sinkThrew' = self.sinkThrew
  /\ UNCHANGED <<Separator, Escape, fail, that>>

RECURSIVE BoundedSeqs(_, _)
BoundedSeqs(S, n) ==
  IF n = 0 THEN {<<>>}
  ELSE LET shorter == BoundedSeqs(S, n - 1)
       IN  shorter \cup {Append(s, x) : s \in shorter, x \in S}

Supplies == BoundedSeqs(Chars, MaxSupply)

\* The readers a caller may hand to Parse and ParseOnly.
Readers ==
  {NewStringReader(s) : s \in Supplies} \cup {NewFileReader(s) : s \in Supplies}

\* The caller makes a reader for one Parse call and drops it afterwards:
\* between other calls there is no reader left to look at.
NoReader == NewStringReader(<<>>)

\* The characters a reader has handed out.
Consumed(r) == SubSeq(r.BackingString, 1, r.Current - 1)

\* The parser has not been destroyed.
Alive == op.name # "~DSVParser"

FeedCharacter(c) ==
  /\ Alive
  /\ Len(hist) < MaxHist
  /\ Store(HandleParsedCharacter(Self, c))
  /\ hist' = Append(hist, c)
  /\ op' = Call("FeedCharacter", c)
  /\ reader' = NoReader

Finish ==
  /\ Alive
  /\ Len(hist) < MaxHist
  /\ Store(FinishParsing(Self))
  /\ hist' = Append(hist, FIN)
  /\ op' = Call("FinishParsing", NoChar)
  /\ reader' = NoReader

Parse(r) ==
  /\ Alive
  /\ Len(hist) + Len(r.BackingString) <= MaxHist
  /\ LET res == ParseReader(Self, r)
     IN  /\ Store(res.self)
         /\ reader' = res.reader
         /\ hist' = hist \o Consumed(res.reader)
  /\ op' = Call("Parse", NoChar)

ParseOnly(r) ==
  /\ Alive
  /\ Len(hist) + Len(r.BackingString) < MaxHist
  /\ LET parsed == ParseReader(Self, r)
         res == ParseOnlyReader(Self, r)
     IN  /\ Store(res.self)
         /\ reader' = res.reader
         /\ hist' = IF Thrown(parsed.self)
                    THEN hist \o Consumed(res.reader)
                    ELSE Append(hist \o Consumed(res.reader), FIN)
  /\ op' = Call("ParseOnly", NoChar)

Reset ==
  /\ Alive
  /\ Len(hist) < MaxHist
  /\ Store(ResetParser(Self))
  /\ hist' = Append(hist, RST)
  /\ op' = Call("Reset", NoChar)
  /\ reader' = NoReader

\* The parser goes out of scope; its destructor calls FinishParsing.
Destroy ==
  /\ Alive
  /\ Len(hist) < MaxHist
  /\ Store(Destructor(Self))
  /\ hist' = Append(hist, FIN)
  /\ op' = Call("~DSVParser", NoChar)
  /\ reader' = NoReader

\* part_002: Parse on a stream holding s.
IstreamParse(s) ==
  /\ Len(hist) + Len(s) <= MaxHist
  /\ Store(IstreamLoop(Self, s))
  /\ hist' = hist \o s
  /\ op' = Call("Parse", NoChar)
  /\ reader' = NoReader

\* The parser is moved into a new parser, which the caller goes on with;
\* the variables of the parser follow the new object, and that holds the
\* object moved from until its destructor runs.
MoveConstruct ==
  /\ Alive
  /\ ~that.live
  /\ LET moved == MoveConstructor(Self)
     IN  /\ Escaping' = moved.this.Escaping
         /\ InRecord' = moved.this.InRecord
         /\ Hooks' = moved.this.Hooks
         /\ Field' = moved.this.Field
         /\ Collected' = moved.this.Collected
         /\ that' = [live |-> TRUE, obj |-> moved.that]
  /\ raised' = NoError
  /\ sinkThrew' = NoError
  /\ op' = Call("DSVParser(DSVParser &&)", NoChar)
  /\ reader' = NoReader
  /\ UNCHANGED <<Separator, Escape, fail, hist>>

\* The parser is move-assigned to a default-constructed parser, which the
\* caller goes on with.
MoveAssign ==
  /\ Alive
  /\ ~that.live
  /\ LET moved == MoveAssignment(Self)
     IN  /\ Escaping' = moved.this.Escaping
         /\ InRecord' = moved.this.InRecord
         /\ Hooks' = moved.this.Hooks
         /\ Field' = moved.this.Field
         /\ Collected' = moved.this.Collected
         /\ that' = [live |-> TRUE, obj |-> moved.that]
  /\ raised' = NoError
  /\ sinkThrew' = NoError
  /\ op' = Call("operator=(DSVParser &&)", NoChar)
  /\ reader' = NoReader
  /\ UNCHANGED <<Separator, Escape, fail, hist>>

\* The object moved from goes out of scope.
DestroyThat ==
  /\ that.live
  /\ that' = [live |-> FALSE, obj |-> Destructor(that.obj)]
  /\ UNCHANGED <<Separator, Escape, Escaping, InRecord, Hooks, Field,
                 Collected, fail, raised, sinkThrew, reader, hist, op>>

Constructed ==
  /\ Separator \in MarkerChars
  /\ Escape \in MarkerChars
  /\ Escaping = FALSE
  /\ Hooks = <<>>
  /\ Field = <<>>
  /\ Collected = <<>>
  /\ raised = NoError
  /\ sinkThrew = NoError
  /\ reader = NoReader
  /\ hist = <<>>
  /\ op = Call("DSVParser", NoChar)
  /\ that = NoThat

\* DSV.h and part_001: DSVParser() : Escaping(false), InRecord(false).
Init ==
  /\ Constructed
  /\ InRecord = FALSE
  /\ fail = NeverFails

\* The core operations: characters pushed one at a time or pulled from a
\* StringReader, FinishParsing and Reset.
Next ==
  \/ \E c \in Chars : FeedCharacter(c)
  \/ \E s \in Supplies : Parse(NewStringReader(s))
  \/ Finish
  \/ Reset

Spec == Init /\ [][Next]_vars

\* A UnixDSVParser, from construction to destruction, pulling from string
\* and file readers.
InitUnix ==
  /\ Init
  /\ Separator = UnixSeparator
  /\ Escape = UnixEscape

NextLifetime ==
  \/ \E c \in Chars : FeedCharacter(c)
  \/ \E r \in Readers : Parse(r)
  \/ \E r \in Readers : ParseOnly(r)
  \/ Finish
  \/ Reset
  \/ Destroy

SpecLifetime == InitUnix /\ [][NextLifetime]_vars

\* A UnixDSVParser pulling from readers of strings in memory.
NextStrings ==
  \/ \E s \in Supplies : Parse(NewStringReader(s))
  \/ \E s \in Supplies : Parse(NewCStringReader(s))
  \/ Finish

SpecStrings == InitUnix /\ [][NextStrings]_vars

\* part_001: a UnixDSVParser over a callbacks object that is moved from
\* object to object while it parses.
NextMove ==
  \/ \E c \in Chars : FeedCharacter(c)
  \/ Finish
  \/ Destroy
  \/ MoveConstruct
  \/ MoveAssign
  \/ DestroyThat

SpecMove == InitUnix /\ [][NextMove]_vars

\* A UnixDSVParser whose hooks throw at one of their first invocations.
SinkFaults == {[at |-> k, type |-> e] : k \in 1..MaxFailAt, e \in ErrorTypes}

InitSink ==
  /\ Constructed
  /\ Separator = UnixSeparator
  /\ Escape = UnixEscape
  /\ InRecord = FALSE
  /\ fail \in SinkFaults

SpecSink == InitSink /\ [][NextLifetime]_vars

\* part_002: DSVParser() : Hooks(), Escaping(false), InField(false) leaves
\* InRecord without a value; reading it may give either.
InitIstream ==
  /\ Constructed
  /\ InRecord \in BOOLEAN
  /\ fail = NeverFails

NextIstream ==
  \/ \E s \in Supplies : IstreamParse(s)
  \/ Reset

SpecIstream == InitIstream /\ [][NextIstream]_vars

TypeOK ==
  /\ Escaping \in BOOLEAN
  /\ InRecord \in BOOLEAN
  /\ Len(hist) <= MaxHist

\* ------------------------------------------------------ shared predicates
PairwiseDistinct == Separator # Escape /\ Separator # NL /\ Escape # NL

\* The UNIX configuration of UnixDSVParser.
UnixConfig == Separator = UnixSeparator /\ Escape = UnixEscape

NoResetSoFar == \A i \in 1..Len(hist) : hist[i] # RST

Count(ev, trace) == Cardinality({i \in 1..Len(trace) : trace[i].ev = ev})

\* Acceptor of the prefixes of (OnRecordStart (OnFieldCharacter* OnFieldEnd)+
\* OnRecordEnd)*.  "idle": no record open; "field": a record is open and its
\* current field is not closed; "closed": the last notification of the open
\* record is OnFieldEnd; "bad": the trace is no such prefix.
GrammarStep(q, n) ==
  IF q = "idle"
  THEN IF n.ev = "OnRecordStart" THEN "field" ELSE "bad"
  ELSE IF q = "field"
  THEN IF n.ev = "OnFieldCharacter" THEN "field"
       ELSE IF n.ev = "OnFieldEnd" THEN "closed"
       ELSE "bad"
  ELSE IF q = "closed"
  THEN IF n.ev = "OnFieldCharacter" THEN "field"
       ELSE IF n.ev = "OnFieldEnd" THEN "closed"
       ELSE IF n.ev = "OnRecordEnd" THEN "idle"
       ELSE "bad"
  ELSE "bad"

RECURSIVE GrammarRun(_, _)
GrammarRun(q, trace) ==
  IF trace = <<>> THEN q
  ELSE GrammarRun(GrammarStep(q, Head(trace)), Tail(trace))

\* ---------------------------------------------------------------- claims

\* C1: with separator, escape and newline pairwise distinct and no Reset
\* called, the notifications delivered so far are a prefix of
\* (OnRecordStart (OnFieldCharacter* OnFieldEnd)+ OnRecordEnd)*, and a
\* record is open in that prefix exactly as long as the parser is in one.
C1_NotificationGrammar ==
  (PairwiseDistinct /\ NoResetSoFar) =>
     LET q == GrammarRun("idle", Hooks)
     IN  /\ q # "bad"
         /\ (q = "idle") <=> ~InRecord

\* A record was closed by a newline, and a second one by FinishParsing.
C1_Witness ==
  /\ PairwiseDistinct /\ NoResetSoFar
  /\ Count("OnRecordEnd", Hooks) = 2
  /\ Count("OnFieldCharacter", Hooks) >= 1
  /\ op.name = "FinishParsing"
  /\ Hooks[Len(Hooks)] = OnRecordEnd

\* Escaping, InRecord and the delivered notifications of a parser record.
Observable(self) == <<self.Escaping, self.InRecord, self.Hooks>>

\* C2: FeedCharacter(c) called while Escaping delivers exactly
\* OnFieldCharacter(c), whatever c is, clears Escaping and leaves InRecord
\* as it was; so Escaping never holds before two consecutive characters.
C2_EscapedCharacterVerbatim ==
  [][(Escaping /\ op'.name = "FeedCharacter") =>
       /\ Hooks' = Append(Hooks, OnFieldCharacter(op'.c))
       /\ ~Escaping'
       /\ InRecord' = InRecord]_vars

\* An escaped separator was fed and delivered as field content.
C2_Witness ==
  /\ PairwiseDistinct
  /\ hist = <<"a", Escape, Separator>>
  /\ op = Call("FeedCharacter", Separator)
  /\ Hooks = <<OnRecordStart, OnFieldCharacter("a"), OnFieldCharacter(Separator)>>
  /\ InRecord /\ ~Escaping

\* ---- records rebuilt from the notifications
\* acc = [records, fields, field]: the completed records, the completed
\* fields of the open record and the characters of the open field.
RECURSIVE Rebuild(_, _)
Rebuild(acc, trace) ==
  IF trace = <<>> THEN acc
  ELSE LET n == Head(trace)
           nxt ==
             IF n.ev = "OnRecordStart"
             THEN [acc EXCEPT !.fields = <<>>, !.field = <<>>]
             ELSE IF n.ev = "OnFieldCharacter"
             THEN [acc EXCEPT !.field = Append(@, n.ch)]
             ELSE IF n.ev = "OnFieldEnd"
             THEN [acc EXCEPT !.fields = Append(@, acc.field), !.field = <<>>]
             ELSE IF n.ev = "OnRecordEnd"
             THEN [acc EXCEPT !.records = Append(@, acc.fields),
                              !.fields = <<>>, !.field = <<>>]
             ELSE acc
       IN  Rebuild(nxt, Tail(trace))

RecordsOf(trace) ==
  Rebuild([records |-> <<>>, fields |-> <<>>, field |-> <<>>], trace).records

\* ---- reference result, computed by position on the whole input
\* Position i holds an escaped character iff an unescaped escape precedes it.
RECURSIVE IsEscaped(_, _, _)
IsEscaped(s, esc, i) ==
  i > 1 /\ s[i - 1] = esc /\ ~IsEscaped(s, esc, i - 1)

\* "lit": field content; "sep", "esc", "nl": an unescaped marker character.
Marked(s, sep, esc) ==
  [i \in 1..Len(s) |->
     [ch |-> s[i],
      mk |-> IF IsEscaped(s, esc, i) THEN "lit"
             ELSE IF s[i] = sep THEN "sep"
             ELSE IF s[i] = esc THEN "esc"
             ELSE IF s[i] = NL THEN "nl"
             ELSE "lit"]]

\* The segments of ts between the tokens marked k (always at least one).
RECURSIVE SplitAt(_, _)
SplitAt(ts, k) ==
  IF ts = <<>> THEN << <<>> >>
  ELSE LET rest == SplitAt(Tail(ts), k)
       IN  IF Head(ts).mk = k
           THEN << <<>> >> \o rest
           ELSE << <<Head(ts)>> \o Head(rest) >> \o Tail(rest)

NonEmpty(ts) == ts # <<>>

\* The characters of a field with the unescaped escape characters stripped.
Unescape(ts) ==
  LET kept == SelectSeq(ts, LAMBDA tk : tk.mk # "esc")
  IN  [i \in 1..Len(kept) |-> kept[i].ch]

FieldsOf(line) ==
  LET fs == SplitAt(line, "sep")
  IN  [i \in 1..Len(fs) |-> Unescape(fs[i])]

Reference(s, sep, esc) ==
  LET lines == SelectSeq(SplitAt(Marked(s, sep, esc), "nl"), NonEmpty)
  IN  [i \in 1..Len(lines) |-> FieldsOf(lines[i])]

\* Only characters were consumed, then FinishParsing was called once.
FedThenFinished ==
  /\ Len(hist) >= 1
  /\ hist[Len(hist)] = FIN
  /\ \A i \in 1..(Len(hist) - 1) : hist[i] \in Chars

Fed == SubSeq(hist, 1, Len(hist) - 1)

\* C3: with separator, escape and newline pairwise distinct, the records of
\* fields rebuilt from the notifications of an input followed by
\* FinishParsing are the reference result: records split at unescaped
\* newlines (empty lines dropped), fields split at unescaped separators,
\* unescaped escape characters stripped.
C3_RecordsMatchReference ==
  (PairwiseDistinct /\ FedThenFinished) =>
     RecordsOf(Hooks) = Reference(Fed, Separator, Escape)

\* A field holding an escaped separator, then a second field, in one record.
C3_Witness ==
  /\ PairwiseDistinct /\ FedThenFinished
  /\ Fed = <<Escape, Separator, Separator, "a">>
  /\ RecordsOf(Hooks) = << << <<Separator>>, <<"a">> >> >>

\* C4: with no Reset called, right after a FinishParsing call as many
\* OnRecordStart as OnRecordEnd notifications have been delivered.
C4_StartsEqualEndsAfterFinish ==
  (NoResetSoFar /\ op.name = "FinishParsing") =>
     Count("OnRecordStart", Hooks) = Count("OnRecordEnd", Hooks)

\* FinishParsing closed the second record of the input.
C4_Witness ==
  /\ NoResetSoFar /\ op.name = "FinishParsing"
  /\ Count("OnRecordStart", Hooks) = 2
  /\ Len(hist) = 4 /\ hist[3] = "a"

\* C5: FinishParsing called in a record delivers exactly OnFieldEnd then
\* OnRecordEnd and leaves Escaping and InRecord false; called outside a
\* record it delivers nothing.
C5_FinishEmitsFieldEndRecordEnd ==
  [][op'.name = "FinishParsing" =>
       IF InRecord
       THEN /\ Hooks' = Hooks \o <<OnFieldEnd, OnRecordEnd>>
            /\ ~Escaping' /\ ~InRecord'
       ELSE Hooks' = Hooks]_vars

\* FinishParsing was called in a record with an escape pending.
C5_Witness ==
  /\ PairwiseDistinct
  /\ hist = <<Separator, Escape, FIN>>
  /\ Hooks = <<OnRecordStart, OnFieldEnd, OnFieldEnd, OnRecordEnd>>
  /\ ~Escaping /\ ~InRecord

\* C6: a FinishParsing call that directly follows a FinishParsing call
\* delivers nothing and leaves Escaping and InRecord as the first left them.
C6_FinishIdempotent ==
  [][(op.name = "FinishParsing" /\ op'.name = "FinishParsing") =>
       /\ Hooks' = Hooks
       /\ Escaping' = Escaping
       /\ InRecord' = InRecord]_vars

\* Two FinishParsing calls in a row, the first of which closed a record.
C6_Witness ==
  /\ Len(hist) = 3
  /\ hist[1] = "a" /\ hist[2] = FIN /\ hist[3] = FIN
  /\ op.name = "FinishParsing"
  /\ Hooks = <<OnRecordStart, OnFieldCharacter("a"), OnFieldEnd, OnRecordEnd>>

\* A FinishParsing call made in a record with no escape pending leaves the
\* parser as FeedCharacter(newline) would have, and the other way round.
FinishLikeNewlineStep ==
  (InRecord /\ ~Escaping) =>
     /\ op'.name = "FinishParsing" =>
          <<Escaping', InRecord', Hooks'>>
            = Observable(HandleParsedCharacter(Self, NL))
     /\ op' = Call("FeedCharacter", NL) =>
          <<Escaping', InRecord', Hooks'>>
            = Observable(FinishParsing(Self))

\* C7 as stated: under every configuration, FinishParsing called in a record
\* with no escape pending delivers the same notifications and leads to the
\* same parser state as FeedCharacter(newline).
C7_Original == [][FinishLikeNewlineStep]_vars

NewlineIsNoMarker == Separator # NL /\ Escape # NL

RecordOfTwoFields ==
  <<OnRecordStart, OnFieldCharacter("a"), OnFieldEnd,
    OnFieldCharacter("a"), OnFieldEnd, OnRecordEnd>>

\* C7 (amended): when neither the separator nor the escape character is the
\* newline, FinishParsing called in a record with no escape pending delivers
\* the same notifications and leads to the same parser state as
\* FeedCharacter(newline); a, separator, a followed by either yields
\* OnRecordStart, OnFieldCharacter, OnFieldEnd, OnFieldCharacter,
\* OnFieldEnd, OnRecordEnd.
C7_FinishLikeNewline ==
  [][/\ NewlineIsNoMarker => FinishLikeNewlineStep
     /\ (/\ UnixConfig
         /\ hist' \in {<<"a", UnixSeparator, "a", FIN>>,
                       <<"a", UnixSeparator, "a", NL>>})
          => Hooks' = RecordOfTwoFields]_vars

\* a:a was fed and FinishParsing closed the record.
C7_Witness ==
  /\ UnixConfig
  /\ hist = <<"a", UnixSeparator, "a", FIN>>
  /\ op.name = "FinishParsing"
  /\ Hooks = RecordOfTwoFields
  /\ ~InRecord /\ ~Escaping

AllNewlines(h) == \A i \in 1..Len(h) : h[i] = NL

\* C8: with separator ':' and escape '\', a newline fed to a parser that is
\* neither in a record nor escaping delivers nothing and leaves both flags
\* false; an input of newlines only delivers no notification at all.
C8_BlankLinesSkipped ==
  [][UnixConfig =>
       /\ (~InRecord /\ ~Escaping /\ op' = Call("FeedCharacter", NL)) =>
            (Hooks' = Hooks /\ ~InRecord' /\ ~Escaping')
       /\ AllNewlines(hist') => Hooks' = <<>>]_vars

\* Two newlines were fed to a fresh parser.
C8_Witness ==
  /\ UnixConfig
  /\ hist = <<NL, NL>>
  /\ op = Call("FeedCharacter", NL)
  /\ Hooks = <<>>
  /\ ~InRecord /\ ~Escaping

\* C9: Reset, whatever the state, clears Escaping and InRecord and delivers
\* exactly one OnReset, with no OnFieldEnd or OnRecordEnd for the record it
\* abandons.
C9_ResetClearsAndNotifies ==
  [][op'.name = "Reset" =>
       /\ ~Escaping' /\ ~InRecord'
       /\ Hooks' = Append(Hooks, OnReset)]_vars

\* Reset was called in a record with an escape pending.
C9_Witness ==
  /\ PairwiseDistinct
  /\ hist = <<"a", Escape, RST>>
  /\ op.name = "Reset"
  /\ Hooks = <<OnRecordStart, OnFieldCharacter("a"), OnReset>>

\* ---- a fresh parser run on the calls made since the last Reset
LastIndex(s, x) ==
  LET I == {i \in 1..Len(s) : s[i] = x}
  IN  IF I = {} THEN 0 ELSE CHOOSE i \in I : \A j \in I : j <= i

RECURSIVE Run(_, _)
Run(self, calls) ==
  IF calls = <<>> THEN self
  ELSE Run(IF Head(calls) = FIN
           THEN FinishParsing(self)
           ELSE HandleParsedCharacter(self, Head(calls)),
           Tail(calls))

SinceReset(s, x) == SubSeq(s, LastIndex(s, x) + 1, Len(s))

\* C10: once Reset has been called, the notifications delivered after the
\* last OnReset and the flags are those of a freshly constructed parser
\* with the same separator and escape given the characters and
\* FinishParsing calls made since that Reset.
C10_ResetBehavesAsFresh ==
  (~NoResetSoFar) =>
     Observable([Self EXCEPT !.Hooks = SinceReset(Hooks, OnReset)])
       = Observable(Run(NewParser(Separator, Escape), SinceReset(hist, RST)))

\* Reset abandoned a record with an escape pending; a separator, a
\* character and FinishParsing followed.
C10_Witness ==
  /\ PairwiseDistinct
  /\ hist = <<Escape, RST, Separator, "a", FIN>>
  /\ Hooks = <<OnRecordStart, OnReset, OnRecordStart, OnFieldEnd,
               OnFieldCharacter("a"), OnFieldEnd, OnRecordEnd>>

\* C11: Parse leaves the parser as feeding the reader's characters one by
\* one does, with no FinishParsing step: when the reader runs dry in a
\* record, InRecord stays true and the record is not closed.  ParseOnly
\* leaves it as those characters followed by FinishParsing do.
C11_ParseNeverFinishes ==
  [][/\ op'.name = "Parse" =>
          /\ <<Escaping', InRecord', Hooks'>>
               = Observable(Run(Self, Consumed(reader')))
          /\ (Len(hist') > 0 /\ hist'[Len(hist')] = "a") =>
               /\ InRecord'
               /\ Hooks'[Len(Hooks')] = OnFieldCharacter("a")
     /\ op'.name = "ParseOnly" =>
          <<Escaping', InRecord', Hooks'>>
            = Observable(Run(Self, Append(Consumed(reader'), FIN)))]_vars

\* Parse returned from an exhausted reader in the second field of a record.
C11_Witness ==
  /\ op.name = "Parse"
  /\ IsEOF(reader)
  /\ reader.BackingString = <<UnixSeparator, "a">>
  /\ InRecord
  /\ Hooks = <<OnRecordStart, OnFieldEnd, OnFieldCharacter("a")>>

\* C12: Parse returns normally whether the reader reports its end through
\* IsEOF (StringReader) or through ReadChar throwing EOFException
\* (FileReader): nothing reaches the caller, every character of the reader
\* was consumed, and the exhaustion itself delivered no notification.
C12_ExhaustionIsNoError ==
  [][op'.name = "Parse" =>
       /\ raised' = NoError
       /\ Consumed(reader') = reader'.BackingString
       /\ reader'.kind = "FileReader" => reader'.feof
       /\ Hooks' = Run(Self, reader'.BackingString).Hooks
       /\ InRecord' = Run(Self, reader'.BackingString).InRecord]_vars

\* Parse read a file to its end in a record: ReadChar threw EOFException.
C12_Witness ==
  /\ op.name = "Parse"
  /\ reader.kind = "FileReader" /\ reader.feof
  /\ reader.BackingString = <<"a">>
  /\ raised = NoError
  /\ InRecord
  /\ Hooks = <<OnRecordStart, OnFieldCharacter("a")>>

\* C13: an error thrown by a hooks method during FeedCharacter, Parse,
\* ParseOnly, FinishParsing or Reset reaches the caller of that operation
\* unmodified, whatever its type, and no further hooks method is invoked
\* before it does.
C13_SinkErrorsPropagate ==
  (/\ sinkThrew # NoError
   /\ op.name \in {"FeedCharacter", "Parse", "ParseOnly",
                   "FinishParsing", "Reset"}) =>
     /\ raised = sinkThrew
     /\ Len(Hooks) = fail.at

\* What the code does guarantee: only an EOFException thrown by the hooks
\* inside Parse or ParseOnly is kept from the caller.
SinkErrorSwallowedOnlyByParse ==
  (sinkThrew # NoError /\ raised # sinkThrew) =>
     /\ sinkThrew = "EOFException"
     /\ op.name \in {"Parse", "ParseOnly"}
     /\ raised = NoError

\* C14: the destructor performs the FinishParsing step: a parser
\* destroyed in a record delivers OnFieldEnd then OnRecordEnd, one destroyed
\* outside a record delivers nothing, and with no Reset called every
\* OnRecordStart has its OnRecordEnd once the parser is destroyed.
C14_DestructorFinishes ==
  [][op'.name = "~DSVParser" =>
       /\ IF InRecord
          THEN Hooks' = Hooks \o <<OnFieldEnd, OnRecordEnd>>
          ELSE Hooks' = Hooks
       /\ ~InRecord' /\ ~Escaping'
       /\ NoResetSoFar =>
            Count("OnRecordStart", Hooks') = Count("OnRecordEnd", Hooks')]_vars

\* A parser was destroyed in the middle of a record.
C14_Witness ==
  /\ op.name = "~DSVParser"
  /\ hist = <<"a", FIN>>
  /\ Hooks = <<OnRecordStart, OnFieldCharacter("a"), OnFieldEnd, OnRecordEnd>>

\* ---- the calls as a marked input: FinishParsing ends a record as an
\* unescaped newline does
MarkedCalls(s, sep, esc) ==
  LET m == Marked(s, sep, esc)
  IN  [i \in 1..Len(s) |->
         IF s[i] = FIN THEN [ch |-> s[i], mk |-> "nl"] ELSE m[i]]

SeparatorsIn(line) ==
  Cardinality({j \in 1..Len(line) : line[j].mk = "sep"})

\* Only characters were consumed and FinishParsing called.
NoResetNoError == \A i \in 1..Len(hist) : hist[i] \in Chars \cup {FIN}

\* C15: with separator, escape and newline pairwise distinct, a completed
\* record holds one OnFieldEnd more than the unescaped separators consumed
\* in it, empty fields included; a, separator, a, newline yields
\* OnRecordStart, OnFieldCharacter, OnFieldEnd, OnFieldCharacter,
\* OnFieldEnd, OnRecordEnd.
C15_FieldEndsPerRecord ==
  /\ (PairwiseDistinct /\ NoResetNoError) =>
       LET recs == RecordsOf(Hooks)
           lines == SelectSeq(SplitAt(MarkedCalls(hist, Separator, Escape),
                                      "nl"), NonEmpty)
       IN  /\ Len(recs) <= Len(lines)
           /\ \A i \in 1..Len(recs) :
                Len(recs[i]) = 1 + SeparatorsIn(lines[i])
  /\ (UnixConfig /\ hist = <<"a", UnixSeparator, "a", NL>>) =>
       Hooks = RecordOfTwoFields

\* A record of three empty fields was closed by a newline.
C15_Witness ==
  /\ PairwiseDistinct
  /\ hist = <<Separator, Separator, NL>>
  /\ op = Call("FeedCharacter", NL)
  /\ Hooks = <<OnRecordStart, OnFieldEnd, OnFieldEnd, OnFieldEnd, OnRecordEnd>>

\* C16: every parser is constructed in the initial state: right after
\* construction Escaping and InRecord are false, so that a first
\* character that is not a newline delivers OnRecordStart before anything
\* else is delivered.
C16_ConstructedInInitialState ==
  /\ hist = <<>> => (~Escaping /\ ~InRecord)
  /\ (hist # <<>> /\ hist[1] \in Chars \ {NL}) =>
       (Hooks # <<>> /\ Hooks[1] = OnRecordStart)

\* Only characters were consumed.
OnlyCharacters == \A i \in 1..Len(hist) : hist[i] \in Chars

\* C18: however a character sequence is cut into pieces, each given to
\* Parse as one supply or to FeedCharacter one character per call, the
\* notifications and the final Escaping and InRecord are those of one Parse
\* over a supply holding the whole sequence.
C18_ChunkingInvariant ==
  OnlyCharacters =>
    Observable(Self)
      = Observable(ParseReader(NewParser(Separator, Escape),
                               NewStringReader(hist)).self)

\* An escape was pending where one piece ended and a Parse of the next
\* piece began.
C18_Witness ==
  /\ UnixConfig
  /\ op.name = "Parse"
  /\ reader.BackingString = <<UnixSeparator, "a">>
  /\ hist = <<UnixEscape, UnixSeparator, "a">>
  /\ Hooks = <<OnRecordStart, OnFieldCharacter(UnixSeparator),
               OnFieldCharacter("a")>>

\* ---- the text of a field, read off the notifications
ClearsField(n) == n.ev \in {"OnFieldEnd", "OnReset"}

LastClear(trace, hi) ==
  LET cleared == {i \in 1..hi : ClearsField(trace[i])}
  IN  IF cleared = {} THEN 0
      ELSE CHOOSE i \in cleared : \A j \in cleared : j <= i

CharactersIn(trace, lo, hi) ==
  LET picked == SelectSeq(SubSeq(trace, lo, hi),
                          LAMBDA n : n.ev = "OnFieldCharacter")
  IN  [i \in 1..Len(picked) |-> picked[i].ch]

FieldEndAt(trace, j) ==
  CHOOSE i \in 1..Len(trace) :
    /\ trace[i] = OnFieldEnd
    /\ Count("OnFieldEnd", SubSeq(trace, 1, i)) = j

\* C19: the buffer of the field-accumulating sink holds, in call order,
\* the characters given to OnFieldCharacter since the last ClearField or
\* OnReset, or since construction; so the text read at each OnFieldEnd
\* holds no character delivered before an earlier OnReset.
C19_BufferSinceLastClear ==
  /\ Field = CharactersIn(Hooks, LastClear(Hooks, Len(Hooks)) + 1, Len(Hooks))
  /\ Len(Collected) = Count("OnFieldEnd", Hooks)
  /\ \A j \in 1..Len(Collected) :
       LET e == FieldEndAt(Hooks, j)
       IN  Collected[j] = CharactersIn(Hooks, LastClear(Hooks, e - 1) + 1, e - 1)

\* Reset was called in the middle of a field and a later field ended.
C19_Witness ==
  /\ UnixConfig
  /\ hist = <<"a", RST, "a", UnixSeparator>>
  /\ Hooks = <<OnRecordStart, OnFieldCharacter("a"), OnReset, OnRecordStart,
               OnFieldCharacter("a"), OnFieldEnd>>
  /\ Collected = << <<"a">> >>
  /\ Field = <<>>

\* C20: with separator, escape and newline pairwise distinct,
\* FeedCharacter(Escape) called while not Escaping sets Escaping and delivers
\* no OnFieldCharacter, OnFieldEnd or OnRecordEnd (only the OnRecordStart of
\* a record it opens); OnFieldCharacter(Escape) is delivered exactly once
\* for each escape character consumed right after an unescaped escape.
C20_EscapeConsumedSilently ==
  [][PairwiseDistinct =>
       /\ (~Escaping /\ op' = Call("FeedCharacter", Escape)) =>
            /\ Escaping'
            /\ InRecord'
            /\ Hooks' = IF InRecord THEN Hooks
                        ELSE Append(Hooks, OnRecordStart)
       /\ Cardinality({i \in 1..Len(Hooks') :
                         Hooks'[i] = OnFieldCharacter(Escape)})
            = Cardinality({i \in 1..Len(hist') :
                             /\ hist'[i] = Escape
                             /\ IsEscaped(hist', Escape, i)})]_vars

\* Three escape characters were fed: the second was delivered, the third
\* is pending.
C20_Witness ==
  /\ PairwiseDistinct
  /\ op = Call("FeedCharacter", Escape)
  /\ hist = <<Escape, Escape, Escape>>
  /\ Escaping
  /\ Hooks = <<OnRecordStart, OnFieldCharacter(Escape)>>

\* FeedCharacter(c) is called with c not the newline while neither Escaping
\* nor InRecord holds.
OpensRecord(c) ==
  /\ ~Escaping /\ ~InRecord
  /\ c \in Chars \ {NL}
  /\ op' = Call("FeedCharacter", c)

\* C21 as stated: a character other than the newline consumed while neither
\* Escaping nor InRecord holds sets InRecord and delivers OnRecordStart
\* once and first, and is then dispatched: the separator adds OnFieldEnd,
\* the escape character adds nothing and sets Escaping, an ordinary
\* character adds OnFieldCharacter(c).
C21_Original ==
  [][\A c \in Chars :
       OpensRecord(c) =>
         /\ InRecord'
         /\ c = Separator =>
              Hooks' = Hooks \o <<OnRecordStart, OnFieldEnd>>
         /\ c = Escape =>
              (Hooks' = Append(Hooks, OnRecordStart) /\ Escaping')
         /\ c \notin {Separator, Escape} =>
              Hooks' = Hooks \o <<OnRecordStart, OnFieldCharacter(c)>>]_vars

\* C21: a character other than the newline consumed while neither Escaping
\* nor InRecord holds sets InRecord and delivers OnRecordStart once and
\* first, and is then dispatched: the separator adds OnFieldEnd, an escape
\* character that is not also the separator adds nothing and sets Escaping,
\* an ordinary character adds OnFieldCharacter(c).
C21_RecordStartThenDispatch ==
  [][\A c \in Chars :
       OpensRecord(c) =>
         /\ InRecord'
         /\ c = Separator =>
              (Hooks' = Hooks \o <<OnRecordStart, OnFieldEnd>> /\ ~Escaping')
         /\ (c = Escape /\ c # Separator) =>
              (Hooks' = Append(Hooks, OnRecordStart) /\ Escaping')
         /\ c \notin {Separator, Escape} =>
              (/\ Hooks' = Hooks \o <<OnRecordStart, OnFieldCharacter(c)>>
               /\ ~Escaping')]_vars

\* The separator opened the second record of the input with an empty
\* field.
C21_Witness ==
  /\ UnixConfig
  /\ op = Call("FeedCharacter", UnixSeparator)
  /\ hist = <<"a", NL, UnixSeparator>>
  /\ InRecord /\ ~Escaping
  /\ Hooks = <<OnRecordStart, OnFieldCharacter("a"), OnFieldEnd, OnRecordEnd,
               OnRecordStart, OnFieldEnd>>

\* C22: with no Reset called, between operations InRecord holds exactly
\* when more OnRecordStart than OnRecordEnd notifications were delivered,
\* and the difference of the two counts is 0 or 1.
C22_InRecordCountsOpenRecord ==
  NoResetSoFar =>
    LET open == Count("OnRecordStart", Hooks) - Count("OnRecordEnd", Hooks)
    IN  /\ open \in {0, 1}
        /\ InRecord <=> open = 1

\* A second record is open after a first one was closed.
C22_Witness ==
  /\ NoResetSoFar
  /\ hist = <<"a", NL, "a">>
  /\ InRecord
  /\ Count("OnRecordStart", Hooks) = 2
  /\ Count("OnRecordEnd", Hooks) = 1

\* ---- a trailing escape: a, the escape character, FinishParsing
TrailingEscape == <<"a", Escape, FIN>>

FinishedRecord ==
  <<OnRecordStart, OnFieldCharacter("a"), OnFieldEnd, OnRecordEnd>>

\* After the trailing escape was finished, the next character, if any, was
\* handled as a fresh parser handles it.
TrailingEscapeDropped ==
  /\ hist = TrailingEscape =>
       (Hooks = FinishedRecord /\ ~Escaping /\ ~InRecord)
  /\ \A c \in Chars :
       hist = Append(TrailingEscape, c) =>
         LET next == HandleParsedCharacter(NewParser(Separator, Escape), c)
         IN  /\ Hooks = FinishedRecord \o next.Hooks
             /\ Escaping = next.Escaping
             /\ InRecord = next.InRecord

\* C23 as stated: a, then an unescaped escape character, then FinishParsing
\* delivers exactly OnRecordStart, OnFieldCharacter(a), OnFieldEnd,
\* OnRecordEnd and leaves Escaping false, so the next character is handled
\* as the first character of a new record.
C23_Original == TrailingEscapeDropped

\* C23: when the escape character is not also the separator, a, then an
\* unescaped escape character, then FinishParsing delivers exactly
\* OnRecordStart, OnFieldCharacter(a), OnFieldEnd, OnRecordEnd and leaves
\* Escaping false, so the next character is handled as the first character
\* of a new record.
C23_TrailingEscapeDropped == Escape # Separator => TrailingEscapeDropped

\* The separator was fed after the trailing escape was finished: it opened
\* a new record with an empty field.
C23_Witness ==
  /\ UnixConfig
  /\ hist = Append(TrailingEscape, UnixSeparator)
  /\ op = Call("FeedCharacter", UnixSeparator)
  /\ Hooks = FinishedRecord \o <<OnRecordStart, OnFieldEnd>>
  /\ InRecord /\ ~Escaping

\* C24: when the separator and the escape character are the same
\* character, not the newline, every occurrence of it consumed delivers
\* OnFieldEnd, Escaping is never set, and no marker character is ever
\* delivered as field content.
C24_SeparatorBeatsEscape ==
  (Separator = Escape /\ Separator # NL) =>
    /\ ~Escaping
    /\ Count("OnFieldEnd", Hooks)
         = Cardinality({i \in 1..Len(hist) : hist[i] = Separator})
           + Count("OnRecordEnd", Hooks)
    /\ \A i \in 1..Len(Hooks) :
         Hooks[i].ev = "OnFieldCharacter" => Hooks[i].ch \notin {Separator, NL}

\* The character that is both separator and escape was consumed twice in
\* a row, and an ordinary character after it.
C24_Witness ==
  /\ Separator = UnixSeparator /\ Escape = UnixSeparator
  /\ hist = <<UnixSeparator, UnixSeparator, "a">>
  /\ Hooks = <<OnRecordStart, OnFieldEnd, OnFieldEnd, OnFieldCharacter("a")>>
  /\ ~Escaping

\* C25: with separator, escape and newline pairwise distinct, Escaping
\* implies InRecord in every state reached by FeedCharacter, Parse,
\* FinishParsing and Reset.
C25_EscapingImpliesInRecord ==
  PairwiseDistinct => (Escaping => InRecord)

\* The escape character was the first character consumed after a Reset.
C25_Witness ==
  /\ PairwiseDistinct
  /\ hist = <<"a", RST, Escape>>
  /\ Escaping /\ InRecord

\* ---- whether a record is open at a position of the notifications
LastResetBefore(trace, i) ==
  LET resets == {j \in 1..(i - 1) : trace[j] = OnReset}
  IN  IF resets = {} THEN 0
      ELSE CHOOSE j \in resets : \A k \in resets : k <= j

\* Before notification i, and since the last OnReset, one OnRecordStart
\* more than OnRecordEnd was delivered.
RecordOpenAt(trace, i) ==
  LET since == SubSeq(trace, LastResetBefore(trace, i) + 1, i - 1)
  IN  Count("OnRecordStart", since) - Count("OnRecordEnd", since) = 1

FieldsInsideRecords(trace) ==
  \A i \in 1..Len(trace) :
    trace[i].ev \in {"OnFieldCharacter", "OnFieldEnd"} => RecordOpenAt(trace, i)

BlankLineSilent ==
  (~InRecord /\ ~Escaping /\ op' = Call("FeedCharacter", NL)) => Hooks' = Hooks

\* C26 as stated: for every separator and escape character, the newline
\* included, OnFieldCharacter and OnFieldEnd are delivered only between an
\* OnRecordStart and its OnRecordEnd, and a newline fed while neither
\* InRecord nor Escaping holds delivers nothing.
C26_Original ==
  [][FieldsInsideRecords(Hooks') /\ BlankLineSilent]_vars

\* C26: for every separator and escape character other than the newline,
\* equal to each other or not, OnFieldCharacter and OnFieldEnd are
\* delivered only between an OnRecordStart and its OnRecordEnd, and a
\* newline fed while neither InRecord nor Escaping holds delivers nothing.
C26_FieldsInsideRecords ==
  [][(Separator # NL /\ Escape # NL) =>
       (FieldsInsideRecords(Hooks') /\ BlankLineSilent)]_vars

\* With one character as both separator and escape, a record of two empty
\* fields was followed by a blank line.
C26_Witness ==
  /\ Separator = UnixSeparator /\ Escape = UnixSeparator
  /\ hist = <<UnixSeparator, NL, NL>>
  /\ op = Call("FeedCharacter", NL)
  /\ Hooks = <<OnRecordStart, OnFieldEnd, OnFieldEnd, OnRecordEnd>>
  /\ ~InRecord /\ ~Escaping

\* C27: moving a parser, by move construction or by move assignment,
\* moves its whole state: the parser the caller goes on with has the
\* notifications, Escaping and InRecord of a parser that was never moved
\* and was given the same characters and FinishParsing calls, and the
\* object moved from delivers nothing of the record in progress to the
\* callbacks object it is left with.
C27_MoveTransfersState ==
  /\ Observable(Self) = Observable(Run(NewParser(Separator, Escape), hist))
  /\ that.obj.Hooks = <<>>

\* The move assignment alone leaves Escaping, InRecord and the
\* notifications as they were.
MoveAssignmentTransfersState ==
  [][op'.name = "operator=(DSVParser &&)" =>
       <<Escaping', InRecord', Hooks'>> = <<Escaping, InRecord, Hooks>>]_vars

\* C28: Parse over a StringReader or a CStringReader returns with the
\* reader at its end, having advanced it by one character per character of
\* the string, and having handled every character of the string once and
\* in order.
C28_ParseConsumesWholeString ==
  [][(op'.name = "Parse" /\ reader'.kind \in {"StringReader", "CStringReader"}) =>
       /\ IsEOF(reader')
       /\ reader'.Current = Len(reader'.BackingString) + 1
       /\ raised' = NoError
       /\ hist' = hist \o reader'.BackingString
       /\ <<Escaping', InRecord', Hooks'>>
            = Observable(Run(Self, reader'.BackingString))]_vars

\* Parse read a whole C string of two characters.
C28_Witness ==
  /\ op.name = "Parse"
  /\ reader.kind = "CStringReader"
  /\ reader.BackingString = <<"a", NL>>
  /\ reader.Current = 3
  /\ hist = <<"a", NL>>
  /\ Hooks = <<OnRecordStart, OnFieldCharacter("a"), OnFieldEnd, OnRecordEnd>>

=============================================================================
